---- MODULE Spec2Model ----
(***************************************************************************)
(* Model of Div-2/oracle_bs.py: a binary search over a comparison oracle   *)
(* reached through an interactive text session (socket or local process).  *)
(*                                                                         *)
(* The program works on 128-bit numbers, the window [2^127, 2^128-1].      *)
(* The model keeps the code's arithmetic and makes the bit width a bound,  *)
(* Bits: the window is [2^(Bits-1), 2^Bits - 1], and "128" in a statement  *)
(* about the program reads "Bits" here (127 reads Bits-1).                 *)
(*                                                                         *)
(* Three specifications share the module:                                  *)
(*   Spec / FairSpec   main() with binary_search_secret, menu_and_query    *)
(*                     and send_guess against an oracle that answers       *)
(*                     every read;                                         *)
(*   SpecParse         parse_int_from_text on bounded texts;               *)
(*   SpecReader /      recv_all and recv_process, byte by byte, against a  *)
(*   FairReader        far end that may write, stay silent or close.       *)
(* Each specification leaves the variables of the others at their initial  *)
(* values.                                                                 *)
(***************************************************************************)
EXTENDS Integers, Sequences, FiniteSets, TLC

VARIABLES
    host, port, bin,   \* truthiness of args.host, args.port, args.bin
    pc,                \* position of main(): "start", "search", "guess", "done"
    qpc,               \* position inside menu_and_query / send_guess
    session,           \* "none", "socket", "process": the handle held by main()
    acquired,          \* number of sessions opened so far
    released,          \* number of s.close() / p.terminate() calls so far
    L, R, steps, mid,  \* locals of binary_search_secret
    out, v,            \* the last reply text and its parsed value
    secret,            \* main()'s `secret`: the value binary_search_secret returned
    outcome,           \* "running", "usage", "failed", "guessed"
    exitCode,          \* process exit status, meaningful when pc = "done"
    wire,              \* the session traffic so far, oldest first
    hidden,            \* the number the far end holds
    oracle,            \* how the far end answers: "truthful", "floor", "adversary"
    txt, pv, ppc,      \* SpecParse: the text, the parsed value, the position
    rdKind, rdPc, rdGot, rdExpired,   \* SpecReader: the reader
    farText, farSent, farOpen         \* SpecReader: the far end

mainVars   == <<host, port, bin, pc, qpc, session, acquired, released, L, R,
                steps, mid, out, v, secret, outcome, exitCode, wire, hidden,
                oracle>>
parseVars  == <<txt, pv, ppc>>
readerVars == <<rdKind, rdPc, rdGot, rdExpired, farText, farSent, farOpen>>
vars       == <<mainVars, parseVars, readerVars>>

(***************************************************************************)
(* Bounds and program constants                                            *)
(***************************************************************************)
Bits == 4            \* stands for the program's bit width, 128
MaxLen == 3          \* longest text SpecParse draws over ParseAlphabet
MaxSteps == 2000     \* the step ceiling of binary_search_secret

\* Python's None, and an optional integer as a sequence of length <= 1.
None == <<>>
Some(n) == <<n>>

Max(a, b) == IF a >= b THEN a ELSE b
Abs(n) == IF n < 0 THEN -n ELSE n

(***************************************************************************)
(* Text: characters, decimal formatting and parsing                        *)
(***************************************************************************)
DigitChars == "0123456789"
CharAt(s, i) == SubSeq(s, i, i)
Digit(d) == CharAt(DigitChars, d + 1)
IsDigit(c) == \E d \in 0..9 : Digit(d) = c
DigitVal(c) == CHOOSE d \in 0..9 : Digit(d) = c

\* str(num): the decimal form of an integer.
RECURSIVE str(_)
str(n) == IF n < 0 THEN "-" \o str(-n)
          ELSE IF n < 10 THEN Digit(n)
          ELSE str(n \div 10) \o Digit(n % 10)

\* int(s) for s a nonempty run of digits with an optional leading "-".
RECURSIVE DigitsValue(_)
DigitsValue(s) == IF Len(s) = 0 THEN 0
                  ELSE 10 * DigitsValue(SubSeq(s, 1, Len(s) - 1))
                       + DigitVal(CharAt(s, Len(s)))
int(s) == IF CharAt(s, 1) = "-" THEN -DigitsValue(SubSeq(s, 2, Len(s)))
          ELSE DigitsValue(s)

\* Variant of DigitRunEnd: a single digit instead of the whole run.
DigitRunEnd_first(s, j) == j

\* \d+ is greedy: the end of the digit run that starts at position j.
RECURSIVE DigitRunEnd(_, _)
DigitRunEnd(s, j) == IF j < Len(s) /\ IsDigit(CharAt(s, j + 1))
                     THEN DigitRunEnd(s, j + 1) ELSE j

\* The regular expression (-?\d+) tried at position i: the end of the match,
\* or 0 when it does not match there.
MatchEndAt(s, i) ==
    IF CharAt(s, i) = "-" /\ i < Len(s) /\ IsDigit(CharAt(s, i + 1))
    THEN DigitRunEnd(s, i + 1)
    ELSE IF IsDigit(CharAt(s, i)) THEN DigitRunEnd(s, i)
    ELSE 0

\* re.search: the leftmost position where the expression matches.
RECURSIVE SearchFrom(_, _)
SearchFrom(s, i) == IF i > Len(s) THEN 0
                    ELSE IF MatchEndAt(s, i) # 0 THEN i
                    ELSE SearchFrom(s, i + 1)

\* Variant of parse_int_from_text: 0 where the text holds no integer.
parse_zero_default(s) ==
    LET i == SearchFrom(s, 1)
    IN  IF i = 0 THEN Some(0)
        ELSE Some(int(SubSeq(s, i, MatchEndAt(s, i))))

parse_int_from_text(s) ==
    LET i == SearchFrom(s, 1)
    IN  IF i = 0 THEN None
        ELSE Some(int(SubSeq(s, i, MatchEndAt(s, i))))

(***************************************************************************)
(* binary_search_secret: the range and the probe                           *)
(***************************************************************************)
RECURSIVE bit_length(_)
bit_length(n) == IF Abs(n) = 0 THEN 0 ELSE 1 + bit_length(Abs(n) \div 2)

\* Variant of InitL: one bit short, 1 << (Bits - 2).
InitL_half == 2 ^ (Bits - 2)

InitL == 2 ^ (Bits - 1)
InitR == 2 ^ Bits - 1

\* Variants of Probe: the lower mid; the sum without the halving.
Probe_lower(l, r) ==
    LET m == (l + r) \div 2
    IN  IF bit_length(m) # Bits THEN Max(m, 2 ^ (Bits - 1)) ELSE m
Probe_nodiv(l, r) ==
    LET m == l + r + 1
    IN  IF bit_length(m) # Bits THEN Max(m, 2 ^ (Bits - 1)) ELSE m

\* The probe of one loop iteration: the upper mid, forced to the minimal
\* Bits-bit number when its bit length is not Bits.
Probe(l, r) ==
    LET m == (l + r + 1) \div 2
    IN  IF bit_length(m) # Bits THEN Max(m, 2 ^ (Bits - 1)) ELSE m

\* Variants of Narrow: the two branches swapped; the threshold val > 1; the
\* lower end moved past the probe.
Narrow_swapped(l, r, m, val) == IF val >= 1 THEN <<l, m - 1>> ELSE <<m, r>>
Narrow_gt1(l, r, m, val) == IF val > 1 THEN <<m, r>> ELSE <<l, m - 1>>
Narrow_plus1(l, r, m, val) == IF val >= 1 THEN <<m + 1, r>> ELSE <<l, m - 1>>

\* Variant of Narrow: the upper end set to the probe itself.
Narrow_keepmid(l, r, m, val) == IF val >= 1 THEN <<m, r>> ELSE <<l, m>>

\* Variant of Narrow: the threshold val >= 0.
Narrow_ge0(l, r, m, val) == IF val >= 0 THEN <<m, r>> ELSE <<l, m - 1>>

\* The range <<L, R>> after a parsed signal val for probe m.
Narrow(l, r, m, val) == IF val >= 1 THEN <<m, r>> ELSE <<l, m - 1>>

(***************************************************************************)
(* The far end of Spec: an oracle holding `hidden`                         *)
(***************************************************************************)
YesTexts == {"1", "ok 2"}
NoTexts  == {"0", "-1"}
BadTexts == {"", "err"}

\* One entry of the session traffic: a read, or a line sent. `by` is the
\* operation doing it ("query" for menu_and_query, "guess" for send_guess),
\* `what` is "selector" or "number" for a line sent.
Recv(by) == [op |-> "recv", by |-> by, what |-> "", line |-> ""]
Send(by, what, line) == [op |-> "send", by |-> by, what |-> what, line |-> line]
Caller == IF pc = "search" THEN "query" ELSE "guess"

\* The number the far end reads from the last line sent to it.
LastNumberSent == int(wire[Len(wire)].line)

\* The reply texts the far end may give to the number just sent.
\* "truthful" answers the comparison, "floor" answers floor(hidden / number)
\* in decimal (the reply the code's comment expects, int(secret/num)), and
\* "adversary" answers anything.
OracleReplies ==
    IF oracle = "truthful"
    THEN IF LastNumberSent <= hidden THEN YesTexts ELSE NoTexts
    ELSE IF oracle = "floor"
    THEN {str(hidden \div LastNumberSent)}
    ELSE YesTexts \cup NoTexts \cup BadTexts

(***************************************************************************)
(* Spec: main()                                                            *)
(***************************************************************************)
ParseIdle  == txt = "" /\ pv = None /\ ppc = "idle"
ReaderIdle == /\ rdKind = "none" /\ rdPc = "idle" /\ rdGot = 0
              /\ rdExpired = FALSE /\ farText = "" /\ farSent = 0
              /\ farOpen = FALSE

\* main() before its first statement, with nothing opened or sent.
MainAtStart ==
    /\ pc = "start" /\ qpc = "idle"
    /\ session = "none" /\ acquired = 0 /\ released = 0
    /\ L = 0 /\ R = 0 /\ steps = 0 /\ mid = 0
    /\ out = "" /\ v = None /\ secret = None
    /\ outcome = "running" /\ exitCode = 0
    /\ wire = <<>>

MainIdle ==
    /\ host = FALSE /\ port = FALSE /\ bin = FALSE
    /\ MainAtStart
    /\ hidden = InitL /\ oracle = "truthful"

Init ==
    /\ host \in BOOLEAN /\ port \in BOOLEAN /\ bin \in BOOLEAN
    /\ MainAtStart
    /\ hidden \in InitL..InitR
    /\ oracle \in {"truthful", "floor", "adversary"}
    /\ ParseIdle /\ ReaderIdle

\* Variant of RemoteSelected: either argument alone selects the remote target.
RemoteSelected_either == host \/ port

RemoteSelected == host /\ port
LocalSelected  == ~RemoteSelected /\ bin

\* Entering binary_search_secret: L, R, steps.
EnterSearch ==
    /\ pc' = "search" /\ qpc' = "idle"
    /\ L' = InitL /\ R' = InitR /\ steps' = 0

\* if args.host and args.port: s = interact_remote(...); binary_search_secret(s)
ConnectRemote ==
    /\ pc = "start" /\ RemoteSelected
    /\ session' = "socket" /\ acquired' = acquired + 1
    /\ EnterSearch
    /\ UNCHANGED <<parseVars, readerVars>>
    /\ UNCHANGED <<host, port, bin, released, mid, out, v, secret, outcome,
                   exitCode, wire, hidden, oracle>>

\* elif args.bin: p = start_local(...); binary_search_secret(p)
StartLocal ==
    /\ pc = "start" /\ LocalSelected
    /\ session' = "process" /\ acquired' = acquired + 1
    /\ EnterSearch
    /\ UNCHANGED <<parseVars, readerVars>>
    /\ UNCHANGED <<host, port, bin, released, mid, out, v, secret, outcome,
                   exitCode, wire, hidden, oracle>>

\* else: print usage; sys.exit(1)
UsageError ==
    /\ pc = "start" /\ ~RemoteSelected /\ ~LocalSelected
    /\ pc' = "done" /\ outcome' = "usage" /\ exitCode' = 1
    /\ UNCHANGED <<parseVars, readerVars>>
    /\ UNCHANGED <<host, port, bin, qpc, session, acquired, released, L, R,
                   steps, mid, out, v, secret, wire, hidden, oracle>>

\* while L < R: mid = ...; enter menu_and_query(conn, mid)
BeginQuery ==
    /\ pc = "search" /\ qpc = "idle" /\ L < R
    /\ mid' = Probe(L, R)
    /\ qpc' = "drain"
    /\ UNCHANGED <<parseVars, readerVars>>
    /\ UNCHANGED <<host, port, bin, pc, session, acquired, released, L, R,
                   steps, out, v, secret, outcome, exitCode, wire, hidden,
                   oracle>>

\* The loop ends with L = R: return L; main() enters send_guess(conn, secret).
SearchFound ==
    /\ pc = "search" /\ qpc = "idle" /\ ~(L < R)
    /\ secret' = Some(L)
    /\ pc' = "guess" /\ qpc' = "drain"
    /\ UNCHANGED <<parseVars, readerVars>>
    /\ UNCHANGED <<host, port, bin, session, acquired, released, L, R, steps,
                   mid, out, v, outcome, exitCode, wire, hidden, oracle>>

\* _ = recv(conn): the first read of menu_and_query / send_guess.
Drain ==
    /\ qpc = "drain"
    /\ wire' = Append(wire, Recv(Caller))
    /\ qpc' = "selector"
    /\ UNCHANGED <<parseVars, readerVars>>
    /\ UNCHANGED <<host, port, bin, pc, session, acquired, released, L, R,
                   steps, mid, out, v, secret, outcome, exitCode, hidden,
                   oracle>>

\* Variant of SendSelector: the number follows the selector at once, without
\* the read of the prompt in between.
SendSelector_pipelined ==
    /\ qpc = "selector"
    /\ wire' = wire \o <<Send(Caller, "selector",
                               IF pc = "search" THEN "1" ELSE "2"),
                          Send(Caller, "number",
                               str(IF pc = "search" THEN mid ELSE secret[1]))>>
    /\ qpc' = "reply"
    /\ UNCHANGED <<parseVars, readerVars>>
    /\ UNCHANGED <<host, port, bin, pc, session, acquired, released, L, R,
                   steps, mid, out, v, secret, outcome, exitCode, hidden,
                   oracle>>

\* send_line(conn, "1") in menu_and_query, send_line(conn, "2") in send_guess.
SendSelector ==
    /\ qpc = "selector"
    /\ wire' = Append(wire, Send(Caller, "selector",
                                 IF pc = "search" THEN "1" ELSE "2"))
    /\ qpc' = "prompt"
    /\ UNCHANGED <<parseVars, readerVars>>
    /\ UNCHANGED <<host, port, bin, pc, session, acquired, released, L, R,
                   steps, mid, out, v, secret, outcome, exitCode, hidden,
                   oracle>>

\* _ = recv(conn): the second read.
ReadPrompt ==
    /\ qpc = "prompt"
    /\ wire' = Append(wire, Recv(Caller))
    /\ qpc' = "number"
    /\ UNCHANGED <<parseVars, readerVars>>
    /\ UNCHANGED <<host, port, bin, pc, session, acquired, released, L, R,
                   steps, mid, out, v, secret, outcome, exitCode, hidden,
                   oracle>>

\* send_line(conn, str(num)) / send_line(conn, str(guess)).
SendNumber ==
    /\ qpc = "number"
    /\ wire' = Append(wire, Send(Caller, "number",
                                 str(IF pc = "search" THEN mid ELSE secret[1])))
    /\ qpc' = "reply"
    /\ UNCHANGED <<parseVars, readerVars>>
    /\ UNCHANGED <<host, port, bin, pc, session, acquired, released, L, R,
                   steps, mid, out, v, secret, outcome, exitCode, hidden,
                   oracle>>

\* The session is released when main() leaves after a search that returned
\* None: the socket branch closes in its finally clause, the process branch
\* returns without p.terminate().
ReleasedOnFailure == IF session = "socket" THEN released + 1 ELSE released

\* Variant of IsAbsent: `if not v`, which takes 0 for absent too.
IsAbsent_falsy(val) == val = None \/ val = Some(0)

\* if v is None
IsAbsent(val) == val = None

\* out = recv(conn); v = parse_int_from_text(out); steps += 1; then the rest
\* of the loop body, and main()'s handling of a None result.
QueryReply ==
    /\ pc = "search" /\ qpc = "reply"
    /\ \E reply \in OracleReplies :
        LET val == parse_int_from_text(reply)
            lr  == Narrow(L, R, mid, val[1])
        IN  /\ out' = reply /\ v' = val
            /\ wire' = Append(wire, Recv(Caller))
            /\ steps' = steps + 1
            /\ IF IsAbsent(val)
               THEN /\ secret' = None /\ outcome' = "failed"
                    /\ pc' = "done" /\ qpc' = "idle"
                    /\ released' = ReleasedOnFailure
                    /\ UNCHANGED <<L, R>>
               ELSE /\ L' = lr[1] /\ R' = lr[2]
                    /\ IF steps + 1 > MaxSteps
                       THEN /\ secret' = None /\ outcome' = "failed"
                            /\ pc' = "done" /\ qpc' = "idle"
                            /\ released' = ReleasedOnFailure
                       ELSE /\ qpc' = "idle"
                            /\ UNCHANGED <<pc, secret, outcome, released>>
    /\ UNCHANGED <<parseVars, readerVars>>
    /\ UNCHANGED <<host, port, bin, session, acquired, mid, exitCode, hidden,
                   oracle>>

\* out = recv(conn, timeout=2.0); print(out); then s.close() / p.terminate().
GuessReply ==
    /\ pc = "guess" /\ qpc = "reply"
    /\ wire' = Append(wire, Recv(Caller))
    /\ released' = released + 1
    /\ outcome' = "guessed"
    /\ pc' = "done" /\ qpc' = "idle"
    /\ UNCHANGED <<parseVars, readerVars>>
    /\ UNCHANGED <<host, port, bin, session, acquired, L, R, steps, mid, out,
                   v, secret, exitCode, hidden, oracle>>

Next ==
    \/ ConnectRemote \/ StartLocal \/ UsageError
    \/ BeginQuery \/ SearchFound
    \/ Drain \/ SendSelector \/ ReadPrompt \/ SendNumber
    \/ QueryReply \/ GuessReply

Spec == Init /\ [][Next]_vars

\* main() is a sequential program: whenever it can take a step it does.
FairSpec == Spec /\ WF_vars(Next)

(***************************************************************************)
(* Properties of Spec                                                      *)
(***************************************************************************)
WindowLo == 2 ^ (Bits - 1)
WindowHi == 2 ^ Bits - 1

HasDigit(s) == \E i \in 1..Len(s) : IsDigit(CharAt(s, i))

\* The positions of the numbers sent by menu_and_query, and the numbers.
QuerySends == {i \in DOMAIN wire : /\ wire[i].op = "send"
                                   /\ wire[i].by = "query"
                                   /\ wire[i].what = "number"}
QueriesIssued == Cardinality(QuerySends)
QueryNumbers == {int(wire[i].line) : i \in QuerySends}
GuessEntries == {i \in DOMAIN wire : wire[i].by = "guess"}

\* The search has returned to main().
SearchReturned == pc \in {"guess", "done"} /\ session # "none"

\* C1: against an oracle that truthfully answers "is probe <= hidden" on
\* every query, binary_search_secret terminates, returns exactly `hidden`,
\* and issues at most Bits queries (Bits stands for 128).
C1_RecoversSecret ==
    /\ [](oracle = "truthful" => steps <= Bits /\ QueriesIssued <= Bits)
    /\ [](oracle = "truthful" /\ SearchReturned
            => secret = Some(hidden) /\ L = hidden /\ R = hidden)
    /\ (oracle = "truthful" /\ pc = "search")
            ~> (SearchReturned /\ secret = Some(hidden))

C1_Witness ==
    /\ oracle = "truthful" /\ pc = "guess"
    /\ hidden = WindowLo + 5 /\ secret = Some(hidden)
    /\ QueriesIssued = Bits - 1

\* C2: with a truthful oracle, after every completed search step
\* L <= hidden <= R, and R - L is strictly smaller than before the step.
C2_RangeInvariant ==
    [][(oracle = "truthful" /\ steps' = steps + 1)
        => (L' <= hidden /\ hidden <= R' /\ R' - L' < R - L)]_vars

C2_Witness ==
    /\ oracle = "truthful" /\ pc = "search" /\ qpc = "idle"
    /\ steps = 2 /\ L <= hidden /\ hidden <= R /\ R - L < WindowHi - WindowLo

\* C3: a reply without a parseable integer aborts the search at that step
\* with None: the failed query counts as a step, L and R are not updated,
\* nothing more is read or sent on that run (no retry, no further query, no
\* guess).
C3_UnparseableAborts ==
    /\ [][(steps' = steps + 1 /\ ~HasDigit(out'))
            => /\ secret' = None /\ outcome' = "failed" /\ pc' = "done"
               /\ L' = L /\ R' = R
               /\ steps' = QueriesIssued']_vars
    /\ [][outcome = "failed" => wire' = wire]_vars
    /\ [](outcome = "failed" => GuessEntries = {} /\ QueriesIssued = steps)

C3_Witness ==
    /\ outcome = "failed" /\ secret = None /\ ~HasDigit(out)
    /\ steps = 1 /\ QueriesIssued = 1 /\ L = WindowLo /\ R = WindowHi

\* C4: every run that opens a session acquires it once and has released it
\* exactly once when the run ends, on the success path and on the failure
\* path.
C4_ReleasedExactlyOnce ==
    /\ session # "none" => acquired = 1
    /\ (pc = "done" /\ session # "none") => released = 1

\* The least m with 2m >= n.
CeilHalf(n) == CHOOSE m \in 0..n : 2 * m >= n /\ 2 * (m - 1) < n

\* C5: for every search state with L < R the probe is ceil((L+R)/2) and
\* L < probe <= R; at L = 2^(Bits-1), R = L + 1 the probe is L + 1 and the
\* step ends with L = R whichever way the oracle answers.
C5_UpperMid ==
    /\ []((pc = "search" /\ qpc # "idle")
            => L < R /\ mid = CeilHalf(L + R) /\ L < mid /\ mid <= R)
    /\ [][(L = WindowLo /\ R = WindowLo + 1 /\ steps' = steps + 1
           /\ v' # None)
            => (mid = WindowLo + 1 /\ L' = R')]_vars

C5_Witness ==
    /\ pc = "search" /\ qpc = "idle" /\ steps = Bits - 1
    /\ L = R /\ L \in {WindowLo, WindowLo + 1} /\ mid = WindowLo + 1

\* C8: when neither a complete remote target (host and port) nor a local
\* executable is selected, the run ends in a usage error with exit status 1,
\* opens no session and neither sends nor receives.
C8_UsageError ==
    (~(host /\ port) /\ ~bin)
        => /\ session = "none" /\ acquired = 0 /\ wire = <<>>
           /\ pc \in {"start", "done"}
           /\ pc = "done" => (outcome = "usage" /\ exitCode = 1)

C8_Witness ==
    /\ host /\ ~port /\ ~bin
    /\ pc = "done" /\ outcome = "usage" /\ exitCode = 1 /\ wire = <<>>

\* C9: for every sequence of parseable signals, truthful or not, the range
\* satisfies 2^(Bits-1) <= L <= R <= 2^Bits - 1, and no step widens it.
C9_RangeInWindow ==
    /\ [](pc = "search" \/ SearchReturned
            => WindowLo <= L /\ L <= R /\ R <= WindowHi)
    /\ [][pc = "search" => (L' >= L /\ R' <= R)]_vars

C9_Witness ==
    /\ oracle = "adversary" /\ pc = "guess" /\ steps = Bits - 1
    /\ L = R /\ L # hidden /\ L = WindowHi

\* C10: every number a query sends lies in [2^(Bits-1), 2^Bits - 1] and has
\* bit length exactly Bits, whatever the oracle has answered so far.
C10_ProbesInWindow ==
    \A n \in QueryNumbers :
        WindowLo <= n /\ n <= WindowHi /\ bit_length(n) = Bits

C10_Witness ==
    /\ oracle = "adversary" /\ QueriesIssued = Bits - 1
    /\ WindowLo + 1 \in QueryNumbers /\ hidden = WindowHi

(***************************************************************************)
(* SpecParse: parse_int_from_text on bounded texts                         *)
(***************************************************************************)
ParseAlphabet == {"-", "0", "4", "7", "a"}

\* The texts over ParseAlphabet of length at most n.
RECURSIVE TextsUpTo(_)
TextsUpTo(n) ==
    IF n = 0 THEN {""}
    ELSE LET shorter == TextsUpTo(n - 1)
         IN  shorter \cup {t \o c : t \in shorter, c \in ParseAlphabet}

ExampleTexts == {"blah 42 blah", "no digits here", "-7", "", "x-12-3", "--5"}

InitParse ==
    /\ txt \in TextsUpTo(MaxLen) \cup ExampleTexts
    /\ pv = None /\ ppc = "ready"
    /\ MainIdle /\ ReaderIdle

\* pv = parse_int_from_text(txt)
Parse ==
    /\ ppc = "ready"
    /\ pv' = parse_int_from_text(txt)
    /\ ppc' = "parsed"
    /\ UNCHANGED <<txt, mainVars, readerVars>>

NextParse == Parse

SpecParse == InitParse /\ [][NextParse]_vars

\* The first digit of s, the end of the digit run it starts, and the value
\* of that run read by place value, negated when a "-" stands right before.
FirstDigitPos(s) ==
    CHOOSE i \in 1..Len(s) : /\ IsDigit(CharAt(s, i))
                             /\ \A j \in 1..(i - 1) : ~IsDigit(CharAt(s, j))
RunEndFrom(s, d) ==
    CHOOSE e \in d..Len(s) : /\ \A k \in d..e : IsDigit(CharAt(s, k))
                             /\ (e = Len(s) \/ ~IsDigit(CharAt(s, e + 1)))
RECURSIVE PlaceValue(_, _, _)
PlaceValue(s, d, e) ==
    IF d > e THEN 0
    ELSE DigitVal(CharAt(s, d)) * 10 ^ (e - d) + PlaceValue(s, d + 1, e)
FirstInteger(s) ==
    LET d == FirstDigitPos(s)
        m == PlaceValue(s, d, RunEndFrom(s, d))
    IN  IF d > 1 /\ CharAt(s, d - 1) = "-" THEN -m ELSE m

\* C6: parse_int_from_text returns the leftmost optionally "-"-signed whole
\* run of decimal digits as an integer, and None exactly when the text has
\* no decimal digit.
C6_ParseFirstInteger ==
    ppc = "parsed"
        => /\ (pv = None) <=> ~HasDigit(txt)
           /\ HasDigit(txt) => pv = Some(FirstInteger(txt))
           /\ txt = "blah 42 blah" => pv = Some(42)
           /\ txt = "-7" => pv = Some(-7)
           /\ txt \in {"", "no digits here"} => (pv = None /\ pv # Some(0))

C6_Witness ==
    ppc = "parsed" /\ txt = "blah 42 blah" /\ pv = Some(42)

(***************************************************************************)
(* SpecReader: recv_all and recv_process, one call, byte by byte           *)
(***************************************************************************)
RecvSize == 4096     \* sock.recv(4096)

Markers == {"Choice:", "Enter a number", "Enter secret"}

\* b"..." in data
Contains(s, m) ==
    \E i \in 1..(Len(s) - Len(m) + 1) : SubSeq(s, i, i + Len(m) - 1) = m
SeesPrompt(s) == \E m \in Markers : Contains(s, m)

\* What the far end writes during the call, if it writes all of it.
FarTexts == {"", "hi", "Choice: ", "1 Choice: ", "Enter a number: ",
             "Enter secret: "}

\* The number of bytes written by the far end and not yet read.
Pending == farSent - rdGot

InitReader ==
    /\ rdKind \in {"socket", "process"}
    /\ rdPc = (IF rdKind = "socket" THEN "recv" ELSE "test")
    /\ rdGot = 0 /\ rdExpired = FALSE
    /\ farText \in FarTexts /\ farSent = 0 /\ farOpen = TRUE
    /\ MainIdle /\ ParseIdle

\* recv_all: sock.recv(4096) returns some of the pending bytes.
SockRecvChunk ==
    /\ rdKind = "socket" /\ rdPc = "recv" /\ Pending > 0
    /\ \E k \in 1..(IF Pending < RecvSize THEN Pending ELSE RecvSize) :
        /\ rdGot' = rdGot + k
        /\ rdPc' = (IF SeesPrompt(SubSeq(farText, 1, rdGot + k))
                    THEN "returned" ELSE "recv")
    /\ UNCHANGED <<rdKind, rdExpired, farText, farSent, farOpen, mainVars,
                   parseVars>>

\* recv_all: sock.recv returns b"" once the far end has closed.
SockRecvEOF ==
    /\ rdKind = "socket" /\ rdPc = "recv" /\ Pending = 0 /\ ~farOpen
    /\ rdPc' = "returned"
    /\ UNCHANGED <<rdKind, rdGot, rdExpired, farText, farSent, farOpen,
                   mainVars, parseVars>>

\* recv_all: no byte arrives within the timeout; socket.timeout is caught.
SockTimeout ==
    /\ rdKind = "socket" /\ rdPc = "recv" /\ Pending = 0 /\ farOpen
    /\ rdPc' = "returned"
    /\ UNCHANGED <<rdKind, rdGot, rdExpired, farText, farSent, farOpen,
                   mainVars, parseVars>>

\* recv_process: while time.time() < end, false.
ProcDeadline ==
    /\ rdKind = "process" /\ rdPc = "test" /\ rdExpired
    /\ rdPc' = "returned"
    /\ UNCHANGED <<rdKind, rdGot, rdExpired, farText, farSent, farOpen,
                   mainVars, parseVars>>

\* recv_process: while time.time() < end, true: call proc.stdout.read(1).
ProcEnterRead ==
    /\ rdKind = "process" /\ rdPc = "test" /\ ~rdExpired
    /\ rdPc' = "read"
    /\ UNCHANGED <<rdKind, rdGot, rdExpired, farText, farSent, farOpen,
                   mainVars, parseVars>>

\* recv_process: read(1) returns one byte.
ProcReadByte ==
    /\ rdKind = "process" /\ rdPc = "read" /\ Pending > 0
    /\ rdGot' = rdGot + 1
    /\ rdPc' = (IF SeesPrompt(SubSeq(farText, 1, rdGot + 1))
                THEN "returned" ELSE "test")
    /\ UNCHANGED <<rdKind, rdExpired, farText, farSent, farOpen, mainVars,
                   parseVars>>

\* recv_process: read(1) returns b"" at end of file.
ProcReadEOF ==
    /\ rdKind = "process" /\ rdPc = "read" /\ Pending = 0 /\ ~farOpen
    /\ rdPc' = "returned"
    /\ UNCHANGED <<rdKind, rdGot, rdExpired, farText, farSent, farOpen,
                   mainVars, parseVars>>

\* The clock passes `end` of recv_process.
Tick ==
    /\ rdKind = "process" /\ rdPc # "returned" /\ ~rdExpired
    /\ rdExpired' = TRUE
    /\ UNCHANGED <<rdKind, rdPc, rdGot, farText, farSent, farOpen, mainVars,
                   parseVars>>

\* The far end writes its next byte.
FarWrite ==
    /\ rdPc # "returned" /\ farOpen /\ farSent < Len(farText)
    /\ farSent' = farSent + 1
    /\ UNCHANGED <<rdKind, rdPc, rdGot, rdExpired, farText, farOpen, mainVars,
                   parseVars>>

\* The far end closes the channel.
FarClose ==
    /\ rdPc # "returned" /\ farOpen
    /\ farOpen' = FALSE
    /\ UNCHANGED <<rdKind, rdPc, rdGot, rdExpired, farText, farSent, mainVars,
                   parseVars>>

ReaderStep ==
    \/ SockRecvChunk \/ SockRecvEOF \/ SockTimeout
    \/ ProcDeadline \/ ProcEnterRead \/ ProcReadByte \/ ProcReadEOF

NextReader ==
    \/ SockRecvChunk \/ SockRecvEOF \/ SockTimeout
    \/ ProcDeadline \/ ProcEnterRead \/ ProcReadByte \/ ProcReadEOF
    \/ Tick \/ FarWrite \/ FarClose

SpecReader == InitReader /\ [][NextReader]_vars

\* The reader runs whenever it can and time passes; the far end owes nothing.
FairReader == SpecReader /\ WF_vars(ReaderStep) /\ WF_vars(Tick)

\* C7: every call of recv_all and of recv_process eventually returns, also
\* when the far end stays open and sends nothing more.
C7_ReaderReturns == (rdPc # "returned") ~> (rdPc = "returned")

(***************************************************************************)
(* Properties of Spec: the step, the traffic, the step count               *)
(***************************************************************************)
\* C11: on a parsed signal, v >= 1 sets L = mid and leaves R; every other
\* parsed value (0, negatives) sets R = mid - 1 and leaves L, and the search
\* goes on; only an absent value aborts, a reply of 0 does not.
C11_StepEffect ==
    /\ [][(steps' = steps + 1 /\ v' # None)
            => /\ v'[1] >= 1 => (L' = mid /\ R' = R)
               /\ v'[1] < 1 => (R' = mid - 1 /\ L' = L)
               /\ pc' = "search" /\ outcome' = "running"]_vars
    /\ [][(steps' = steps + 1 /\ HasDigit(out')) => v' # None]_vars
    /\ [][outcome' = "failed" => v' = None]_vars

C11_Witness ==
    /\ pc = "search" /\ qpc = "idle" /\ steps = 1
    /\ out = "0" /\ v = Some(0)
    /\ L = WindowLo /\ R = mid - 1 /\ outcome = "running"

\* The place of entry i inside its operation: 0 read, 1 selector, 2 read,
\* 3 number, 4 read.
Slot(i) == (i - 1) % 5

\* C12: the traffic is a sequence of whole operations, each being read,
\* send selector, read, send number, read, one entry per step; a query sends
\* "1" and then its probe in decimal; the guess happens at most once, after
\* the search returned with L = R, sends "2" and then that value, and no
\* query follows it.
C12_TrafficOrder ==
    /\ [](\A i \in DOMAIN wire :
            /\ wire[i].op = (IF Slot(i) \in {0, 2, 4} THEN "recv" ELSE "send")
            /\ Slot(i) = 1
                => /\ wire[i].what = "selector"
                   /\ wire[i].line = (IF wire[i].by = "query" THEN "1" ELSE "2")
            /\ Slot(i) = 3 => wire[i].what = "number"
            /\ Slot(i) # 0 => wire[i].by = wire[i - 1].by
            /\ (i > 1 /\ wire[i - 1].by = "guess") => wire[i].by = "guess")
    /\ [](Cardinality(GuessEntries) <= 5)
    /\ [](GuessEntries # {}
            => /\ pc \in {"guess", "done"} /\ L = R /\ secret = Some(L)
               /\ \A i \in GuessEntries :
                    wire[i].what = "number"
                        => (wire[i].line = str(L) /\ int(wire[i].line) = L))
    /\ []((pc = "search" /\ qpc = "reply")
            => (wire[Len(wire)].line = str(mid) /\ LastNumberSent = mid))
    /\ [][wire' = wire \/ (/\ Len(wire') = Len(wire) + 1
                           /\ SubSeq(wire', 1, Len(wire)) = wire)]_vars

C12_Witness ==
    /\ outcome = "guessed" /\ oracle = "truthful"
    /\ Len(wire) = 5 * Bits
    /\ wire[Len(wire) - 1] = Send("guess", "number", str(hidden))
    /\ wire[Len(wire) - 3] = Send("guess", "selector", "2")

\* C13: against an oracle replying floor(hidden / probe), every reply is 0
\* or 1, it is >= 1 exactly when probe <= hidden, and the search returns
\* exactly `hidden`.
C13_FloorOracle ==
    /\ [][(oracle = "floor" /\ steps' = steps + 1)
            => /\ v' \in {Some(0), Some(1)}
               /\ (v'[1] >= 1) <=> (mid <= hidden)]_vars
    /\ [](oracle = "floor" => outcome # "failed")
    /\ []((oracle = "floor" /\ SearchReturned)
            => (secret = Some(hidden) /\ L = hidden /\ R = hidden))

C13_Witness ==
    /\ oracle = "floor" /\ outcome = "guessed"
    /\ hidden = WindowLo + 2 /\ secret = Some(hidden)
    /\ out = "0" /\ steps = Bits - 1

\* C14: for every sequence of parseable signals the loop ends with L = R
\* after exactly Bits - 1 queries (127 for the program), so the step ceiling
\* is never exceeded and the search fails only on an unparseable reply.
C14_ExactStepCount ==
    /\ steps <= Bits - 1 /\ steps <= MaxSteps /\ QueriesIssued <= Bits - 1
    /\ (pc = "search" /\ qpc = "idle") => (L = R <=> steps = Bits - 1)
    /\ (SearchReturned /\ secret # None)
        => (L = R /\ steps = Bits - 1 /\ QueriesIssued = Bits - 1)
    /\ outcome = "failed" => (v = None /\ ~HasDigit(out))

C14_Witness ==
    /\ oracle = "adversary" /\ outcome = "guessed"
    /\ hidden = WindowHi /\ secret = Some(WindowLo)
    /\ QueriesIssued = Bits - 1 /\ steps = Bits - 1

\* C15: in every search state with L < R the upper midpoint (L+R+1) div 2
\* already has bit length Bits, so the clamp is never taken and the probe is
\* that midpoint, also at the boundary L = 2^(Bits-1).
C15_ClampNeverTaken ==
    /\ (pc = "search" /\ L < R) => bit_length((L + R + 1) \div 2) = Bits
    /\ (pc = "search" /\ qpc # "idle")
        => (mid = (L + R + 1) \div 2 /\ bit_length(mid) = Bits)

C15_Witness ==
    /\ pc = "search" /\ qpc = "drain"
    /\ L = WindowLo /\ R = WindowLo + 1
    /\ mid = WindowLo + 1 /\ bit_length(mid) = Bits

====
